---- MODULE Spec2Model ----
(***************************************************************************)
(* State-machine model of RelatedJobsGraph (src/related_jobs_network.py):  *)
(* construction (seed resolution with retry) followed by the recursive     *)
(* walk get_related_jobs(seed_id, 1), against a remote source whose        *)
(* answers are nondeterministic.  The walk is modelled with an explicit    *)
(* call stack, one step per statement that mutates the graph, so that an   *)
(* interrupt can stop it between any two mutations.                        *)
(***************************************************************************)
EXTENDS Integers, Sequences, FiniteSets, TLC

\* ------------------------------------------------------------------ bounds

\* max_depth is drawn from 0..MaxDepthBound
MaxDepthBound == 2

\* the seed's related-jobs list is any list of at most MaxList entries
MaxList == 2

\* GraphConfig.max_retries
max_retries == 3

\* ------------------------------------------------------- the remote source

SeedId == "seed_id"

JobIds == {"seed_id", "b1", "c1", "d1"}

\* Python's None (start_job_name before it is assigned)
None == "<None>"

\* no regex match
NoMatch == "<no match>"

\* the part of a link the pattern //www\.104\.com\.tw/job/(\w+) looks for
JobUrl == "//www.104.com.tw/job/"

OtherUrl == "//www.104.com.tw/company/"

\* the display name the detail page of a job carries in its <title>
Title == [j \in JobIds |->
            CASE j = "seed_id" -> "A"
              [] j = "b1" -> "B"
              [] j = "c1" -> "C"
              [] j = "d1" -> "D"]

\* one entry of data.list: link.job is a URL <<prefix, token>> or missing
\* (<<>>), name is a string or missing ("")
E(id, name) == [link |-> <<JobUrl, id>>, name |-> name]

\* what one GET /job/{id} can do: a page with a title, a page whose title is
\* empty before the delimiter, a page without the title pattern, a
\* requests.RequestException (network error, HTTP status), any other exception
DetailOutcomes == {"title", "empty_title", "no_title", "request_error", "other_error"}

\* how one GET /job/ajax/similarJobs/{id} can fail: RequestException (incl.
\* raise_for_status), response.json() raising, data.list missing
FailKinds == {"request_error", "bad_json", "no_list"}

\* the entries the seed's list is built from
SeedEntries ==
    { E("b1", "B"), E("c1", "C"), E("c1", "A"), E("seed_id", "A"),
      [link |-> <<OtherUrl, "d1">>, name |-> "D"],
      [link |-> <<>>, name |-> "D"],
      E("d1", "") }

SeqsUpTo(S, n) == UNION { [1..k -> S] : k \in 0..n }

\* the related lists of the jobs other than the seed: b1 refers back to the
\* seed and to d1
BaseRemote == [j \in JobIds |->
                 CASE j = "b1" -> <<E("seed_id", "A"), E("d1", "D")>>
                   [] OTHER -> <<>>]

\* two jobs listing each other, and a job listing itself
MutualRemote == [j \in JobIds |->
                   CASE j = "seed_id" -> <<E("b1", "B"), E("c1", "C")>>
                     [] j = "b1" -> <<E("c1", "C"), E("b1", "B"), E("seed_id", "A")>>
                     [] j = "c1" -> <<E("b1", "B"), E("d1", "D")>>
                     [] OTHER -> <<E("d1", "D")>>]

Remotes == { [BaseRemote EXCEPT ![SeedId] = s] : s \in SeqsUpTo(SeedEntries, MaxList) }
             \cup {MutualRemote}

\* --------------------------------------------------------------- the state

VARIABLES
    max_depth,       \* self.max_depth
    remote,          \* the related-jobs list the remote source holds per job
    nodes,           \* self.G: its nodes
    edges,           \* self.G: its edges, each the set of its endpoints
    node_depths,     \* self.node_depths
    visited_jobs,    \* self.visited_jobs
    start_job_name,  \* self.start_job_name
    phase,           \* where main() is
    attempt,         \* the loop variable of _get_job_name_with_retry
    stack,           \* the activations of get_related_jobs, innermost first
    interrupted,     \* a KeyboardInterrupt has stopped the run
    allRequestErrors,\* history: every detail fetch of __init__ so far ended in
                     \* a requests.RequestException
    remoteFailed,    \* history: some remote call did not succeed
    seen,            \* history: job ids in entries of returned related lists
    fetched,         \* history: job ids whose related list was requested
    fails,           \* history: job ids whose related-list request failed
    added            \* history: <<job id, depth>> of every entry added as a node

vars == <<max_depth, remote, nodes, edges, node_depths, visited_jobs,
          start_job_name, phase, attempt, stack, interrupted, allRequestErrors,
          remoteFailed, seen, fetched, fails, added>>

graph == <<nodes, edges, node_depths, visited_jobs>>

history == <<allRequestErrors, remoteFailed, seen, fetched, fails, added>>

config == <<max_depth, remote>>

Init ==
    /\ max_depth \in 0..MaxDepthBound
    /\ remote \in Remotes
    /\ nodes = {}
    /\ edges = {}
    /\ node_depths = <<>>
    /\ visited_jobs = {}
    /\ start_job_name = None
    /\ phase = "ctor_retry"
    /\ attempt = 0
    /\ stack = <<>>
    /\ interrupted = FALSE
    /\ allRequestErrors = TRUE
    /\ remoteFailed = FALSE
    /\ seen = {}
    /\ fetched = {}
    /\ fails = {}
    /\ added = {}

\* ------------------------------------------------------ Fetch-with-Retry

\* get_job_name raised (an exception that is not a RequestException)
Raised == "<raised>"

\* get_job_name(job_id) when the detail fetch does `outcome`: the unescaped
\* title, or job_id when the title pattern is absent or the request failed
get_job_name(job_id, outcome) ==
    CASE outcome = "title" -> Title[job_id]
      [] outcome = "empty_title" -> ""
      [] outcome = "no_title" -> job_id
      [] outcome = "request_error" -> job_id
      [] outcome = "other_error" -> Raised

\* `if name:` -- a non-empty string
Truthy(name) == name # "" /\ name # None

\* one iteration of the loop of _get_job_name_with_retry, called by __init__;
\* the loop variable is gone once the function has returned
CtorAttempt(outcome) ==
    /\ ~interrupted
    /\ phase = "ctor_retry"
    /\ attempt < max_retries
    /\ allRequestErrors' = (allRequestErrors /\ outcome = "request_error")
    /\ remoteFailed' = (remoteFailed \/ outcome # "title")
    /\ LET name == get_job_name(SeedId, outcome) IN
         IF name # Raised /\ Truthy(name)
         THEN /\ start_job_name' = name
              /\ phase' = "ctor_add_node"
              /\ attempt' = 0
         ELSE /\ attempt' = attempt + 1
              /\ UNCHANGED <<start_job_name, phase>>
    /\ UNCHANGED <<config, graph, stack, interrupted, seen, fetched, fails, added>>

\* the loop is exhausted: _get_job_name_with_retry returns None and __init__
\* raises ValueError
CtorExhausted ==
    /\ ~interrupted
    /\ phase = "ctor_retry"
    /\ attempt >= max_retries
    /\ phase' = "ctor_raised"
    /\ attempt' = 0
    /\ UNCHANGED <<config, graph, start_job_name, stack, interrupted, history>>

\* self.G.add_node(self.start_job_name)
CtorAddNode ==
    /\ ~interrupted
    /\ phase = "ctor_add_node"
    /\ nodes' = nodes \cup {start_job_name}
    /\ phase' = "ctor_set_depth"
    /\ UNCHANGED <<config, edges, node_depths, visited_jobs, start_job_name,
                   attempt, stack, interrupted, history>>

\* d[name] = depth on a dict
SetItem(d, name, depth) ==
    [n \in DOMAIN d \cup {name} |-> IF n = name THEN depth ELSE d[n]]

\* self.node_depths[self.start_job_name] = 0
CtorSetDepth ==
    /\ ~interrupted
    /\ phase = "ctor_set_depth"
    /\ node_depths' = SetItem(node_depths, start_job_name, 0)
    /\ phase' = "ctor_mark_visited"
    /\ UNCHANGED <<config, nodes, edges, visited_jobs, start_job_name,
                   attempt, stack, interrupted, history>>

\* self.visited_jobs.add(start_job_id)
CtorMarkVisited ==
    /\ ~interrupted
    /\ phase = "ctor_mark_visited"
    /\ visited_jobs' = visited_jobs \cup {SeedId}
    /\ phase' = "constructed"
    /\ UNCHANGED <<config, nodes, edges, node_depths, start_job_name,
                   attempt, stack, interrupted, history>>

\* ------------------------------------------------------- Traversal Engine

\* a new activation of get_related_jobs(job_id, depth, parent_node)
Frame(job_id, depth, parent_node) ==
    [job_id |-> job_id, depth |-> depth, parent_node |-> parent_node,
     pc |-> "enter", similar_jobs |-> <<>>, i |-> 1]

\* main(): graph.get_related_jobs(args.job_id, 1)
StartTraversal ==
    /\ ~interrupted
    /\ phase = "constructed"
    /\ phase' = "traverse"
    /\ stack' = <<Frame(SeedId, 1, None)>>
    /\ UNCHANGED <<config, graph, start_job_name, attempt, interrupted, history>>

Top == Head(stack)

Running == ~interrupted /\ phase = "traverse" /\ stack # <<>>

\* the activation on top returns to its caller (to main, when it is the last)
Return ==
    /\ stack' = Tail(stack)
    /\ phase' = IF Tail(stack) = <<>> THEN "done" ELSE phase

\* the top activation goes on with these fields changed
Goto(f) == stack' = <<f>> \o Tail(stack)

\* a depth guard that is off by one
DepthExceededOffByOne(depth) == depth > max_depth + 1

\* if depth > self.max_depth
DepthExceeded(depth) == depth > max_depth

\* if job_id in self.visited_jobs and depth > 1
AlreadyVisited(job_id, depth) == job_id \in visited_jobs /\ depth > 1

\* if depth > self.max_depth: return
EnterDepthExceeded ==
    /\ Running
    /\ Top.pc = "enter"
    /\ DepthExceeded(Top.depth)
    /\ Return
    /\ UNCHANGED <<config, graph, start_job_name, attempt, interrupted, history>>

\* if depth == 1: parent_node = self.get_job_name(job_id); the visited guard
\* does not apply; go on to the fetch.  An exception of get_job_name leaves
\* get_related_jobs and is caught by main()
EnterSeed(outcome) ==
    /\ Running
    /\ Top.pc = "enter"
    /\ ~DepthExceeded(Top.depth)
    /\ Top.depth = 1
    /\ remoteFailed' = (remoteFailed \/ outcome # "title")
    /\ LET name == get_job_name(Top.job_id, outcome) IN
         IF name = Raised
         THEN /\ stack' = <<>>
              /\ phase' = "failed"
         ELSE /\ ~AlreadyVisited(Top.job_id, Top.depth)
              /\ Goto([Top EXCEPT !.parent_node = name, !.pc = "fetch"])
              /\ phase' = phase
    /\ UNCHANGED <<config, graph, start_job_name, attempt, interrupted,
                   allRequestErrors, seen, fetched, fails, added>>

\* depth > 1: if job_id in self.visited_jobs and depth > 1: return;
\* otherwise go on to the fetch
EnterDeeper ==
    /\ Running
    /\ Top.pc = "enter"
    /\ ~DepthExceeded(Top.depth)
    /\ Top.depth # 1
    /\ IF AlreadyVisited(Top.job_id, Top.depth)
       THEN Return
       ELSE Goto([Top EXCEPT !.pc = "fetch"]) /\ phase' = phase
    /\ UNCHANGED <<config, graph, start_job_name, attempt, interrupted, history>>

\* the job ids that occur in the entries of a related-jobs list
IdsIn(list) ==
    { list[k].link[2] : k \in { n \in 1..Len(list) :
                                  Len(list[n].link) = 2 /\ list[n].link[1] = JobUrl } }

\* a failed fetch whose exception is not caught: it leaves every activation
\* and reaches main()
FetchFailurePropagates(kind) ==
    /\ Running
    /\ Top.pc = "fetch"
    /\ fetched' = fetched \cup {Top.job_id}
    /\ fails' = fails \cup {Top.job_id}
    /\ remoteFailed' = TRUE
    /\ stack' = <<>>
    /\ phase' = "failed"
    /\ UNCHANGED <<config, graph, start_job_name, attempt, interrupted,
                   allRequestErrors, seen, added>>

\* the fetch of the related list fails: each way ends the activation without
\* touching the graph (`return` after the warning, or one of the two outer
\* except clauses, which only log)
FetchFailure(kind) ==
    /\ Running
    /\ Top.pc = "fetch"
    /\ fetched' = fetched \cup {Top.job_id}
    /\ fails' = fails \cup {Top.job_id}
    /\ remoteFailed' = TRUE
    /\ Return
    /\ UNCHANGED <<config, graph, start_job_name, attempt, interrupted,
                   allRequestErrors, seen, added>>

\* the fetch succeeds: similar_jobs = data['data']['list']
FetchOk ==
    /\ Running
    /\ Top.pc = "fetch"
    /\ fetched' = fetched \cup {Top.job_id}
    /\ seen' = seen \cup IdsIn(remote[Top.job_id])
    /\ Goto([Top EXCEPT !.similar_jobs = remote[Top.job_id], !.i = 1, !.pc = "loop"])
    /\ UNCHANGED <<config, graph, start_job_name, phase, attempt, interrupted,
                   allRequestErrors, remoteFailed, fails, added>>

\* a pattern that takes the last path segment of any link for a job id
ExtractIdAnyUrl(link) ==
    IF Len(link) = 2 THEN link[2] ELSE NoMatch

\* re.search(r"//www\.104\.com\.tw/job/(\w+)", related_job_id), group(1)
ExtractId(link) ==
    IF Len(link) = 2 /\ link[1] = JobUrl THEN link[2] ELSE NoMatch

\* the entry the loop of the top activation is at
Entry == Top.similar_jobs[Top.i]

\* related_job_name of that entry
related_job_name == Entry.name

\* extracted_job_id of that entry
extracted_job_id == ExtractId(Entry.link)

\* the three `continue`s before the entry is added: link or name missing,
\* no job id in the link, job id already in visited_jobs
Skipped(entry) ==
    \/ entry.link = <<>>
    \/ entry.name = ""
    \/ ExtractId(entry.link) = NoMatch
    \/ ExtractId(entry.link) \in visited_jobs

\* a loop that does not advance
NextIndexStuck(i) == i

\* the for loop moves to the next entry
NextIndex(i) == i + 1

\* for job in similar_jobs: the list is exhausted, the activation returns
LoopEnd ==
    /\ Running
    /\ Top.pc = "loop"
    /\ Top.i > Len(Top.similar_jobs)
    /\ Return
    /\ UNCHANGED <<config, graph, start_job_name, attempt, interrupted, history>>

\* the entry is skipped
LoopSkip ==
    /\ Running
    /\ Top.pc = "loop"
    /\ Top.i <= Len(Top.similar_jobs)
    /\ Skipped(Entry)
    /\ Goto([Top EXCEPT !.i = NextIndex(Top.i)])
    /\ UNCHANGED <<config, graph, start_job_name, phase, attempt, interrupted, history>>

\* the entry is new
LoopTake ==
    /\ Running
    /\ Top.pc = "loop"
    /\ Top.i <= Len(Top.similar_jobs)
    /\ ~Skipped(Entry)
    /\ Goto([Top EXCEPT !.pc = "add_node"])
    /\ UNCHANGED <<config, graph, start_job_name, phase, attempt, interrupted, history>>

\* self.G.add_node(related_job_name)
AddNode ==
    /\ Running
    /\ Top.pc = "add_node"
    /\ nodes' = nodes \cup {related_job_name}
    /\ Goto([Top EXCEPT !.pc = "add_edge"])
    /\ UNCHANGED <<config, edges, node_depths, visited_jobs, start_job_name,
                   phase, attempt, interrupted, history>>

\* an add_edge that does not create missing endpoints
NodesAfterAddEdgeNoCreate(ns, u, v) == ns

\* the nodes of a networkx Graph after add_edge(u, v): both endpoints are
\* created when absent
NodesAfterAddEdge(ns, u, v) == ns \cup {u, v}

\* self.G.add_edge(parent_node, related_job_name)
AddEdge ==
    /\ Running
    /\ Top.pc = "add_edge"
    /\ nodes' = NodesAfterAddEdge(nodes, Top.parent_node, related_job_name)
    /\ edges' = edges \cup {{Top.parent_node, related_job_name}}
    /\ Goto([Top EXCEPT !.pc = "set_depth"])
    /\ UNCHANGED <<config, node_depths, visited_jobs, start_job_name,
                   phase, attempt, interrupted, history>>

\* self.node_depths[related_job_name] = depth
SetDepth ==
    /\ Running
    /\ Top.pc = "set_depth"
    /\ node_depths' = SetItem(node_depths, related_job_name, Top.depth)
    /\ Goto([Top EXCEPT !.pc = "mark_visited"])
    /\ UNCHANGED <<config, nodes, edges, visited_jobs, start_job_name,
                   phase, attempt, interrupted, history>>

\* self.visited_jobs.add(extracted_job_id)
MarkVisited ==
    /\ Running
    /\ Top.pc = "mark_visited"
    /\ visited_jobs' = visited_jobs \cup {extracted_job_id}
    /\ added' = added \cup {<<extracted_job_id, Top.depth>>}
    /\ Goto([Top EXCEPT !.pc = "recurse"])
    /\ UNCHANGED <<config, nodes, edges, node_depths, start_job_name,
                   phase, attempt, interrupted, allRequestErrors, remoteFailed,
                   seen, fetched, fails>>

\* time.sleep(request_delay); self.get_related_jobs(extracted_job_id,
\* depth + 1, related_job_name): the caller resumes at the next entry
Recurse ==
    /\ Running
    /\ Top.pc = "recurse"
    /\ stack' = <<Frame(extracted_job_id, Top.depth + 1, related_job_name),
                  [Top EXCEPT !.pc = "loop", !.i = NextIndex(Top.i)]>>
                \o Tail(stack)
    /\ UNCHANGED <<config, graph, start_job_name, phase, attempt, interrupted, history>>

\* a KeyboardInterrupt: no except clause of the class catches it (it is not
\* an Exception); main() catches it and stops, the object left as it is
Interrupt ==
    /\ ~interrupted
    /\ phase \notin {"done", "ctor_raised", "failed"}
    /\ interrupted' = TRUE
    /\ UNCHANGED <<config, graph, start_job_name, phase, attempt, stack, history>>

\* --------------------------------------------------------- specifications

\* the steps the program itself takes
Step ==
    \/ \E outcome \in DetailOutcomes : CtorAttempt(outcome)
    \/ CtorExhausted
    \/ CtorAddNode
    \/ CtorSetDepth
    \/ CtorMarkVisited
    \/ StartTraversal
    \/ EnterDepthExceeded
    \/ \E outcome \in DetailOutcomes : EnterSeed(outcome)
    \/ EnterDeeper
    \/ \E kind \in FailKinds : FetchFailure(kind)
    \/ FetchOk
    \/ LoopEnd
    \/ LoopSkip
    \/ LoopTake
    \/ AddNode
    \/ AddEdge
    \/ SetDepth
    \/ MarkVisited
    \/ Recurse

Next == Step \/ Interrupt

Spec == Init /\ [][Next]_vars

\* every remote call returns or times out (timeout=10) and every sleep ends:
\* the single thread takes its next step unless it is interrupted
FairSpec == Init /\ [][Next]_vars /\ WF_vars(Step)

\* the run is over
Terminated == interrupted \/ phase \in {"done", "ctor_raised", "failed"}

\* ------------------------------------------------------------------ claims

\* the remote source of the worked example: the seed lists (b1, B), (c1, C);
\* b1 lists (seed_id, A), (d1, D); c1 and d1 list nothing
C1Remote == [BaseRemote EXCEPT ![SeedId] = <<E("b1", "B"), E("c1", "C")>>]

C1_Scenario ==
    /\ max_depth = 2
    /\ remote = C1Remote
    /\ start_job_name = "A"
    /\ ~remoteFailed

\* C1: with max_depth = 2, the remote source of the worked example and every
\* remote call succeeding, the finished run has exactly the nodes {A, B, C, D},
\* the edges {A-B, A-C, B-D} and the depths {A:0, B:1, C:1, D:2}.
C1_ExampleGraph ==
    (phase = "done" /\ ~interrupted /\ C1_Scenario) =>
        /\ nodes = {"A", "B", "C", "D"}
        /\ edges = {{"A", "B"}, {"A", "C"}, {"B", "D"}}
        /\ DOMAIN node_depths = {"A", "B", "C", "D"}
        /\ node_depths["A"] = 0
        /\ node_depths["B"] = 1
        /\ node_depths["C"] = 1
        /\ node_depths["D"] = 2

\* C2: in every state, every value stored in node_depths lies in 0..max_depth.
C2_DepthsWithinBound ==
    \A n \in DOMAIN node_depths : 0 <= node_depths[n] /\ node_depths[n] <= max_depth

\* a finished walk that recorded a node at depth max_depth >= 1
C2_Witness ==
    /\ phase = "done"
    /\ max_depth >= 1
    /\ \E n \in DOMAIN node_depths : node_depths[n] = max_depth

\* construction has succeeded
Constructed == phase \in {"constructed", "traverse", "done", "failed"}

\* C3: from the end of a successful construction on, start_job_name is a node
\* of the graph and node_depths[start_job_name] = 0, whatever the related
\* lists hold.
C3_SeedDepthZero ==
    Constructed =>
        /\ start_job_name \in nodes
        /\ start_job_name \in DOMAIN node_depths
        /\ node_depths[start_job_name] = 0

\* C4: in every state, also those between the mutations of one entry where an
\* interrupt may stop the walk, every key of node_depths is a node and both
\* endpoints of every edge are nodes.
C4_GraphConsistent ==
    /\ DOMAIN node_depths \subseteq nodes
    /\ \A e \in edges : e \subseteq nodes

\* interrupted right after add_edge, whose parent endpoint was no node before
C4_Witness ==
    /\ interrupted
    /\ phase = "traverse"
    /\ stack # <<>>
    /\ Top.pc = "set_depth"
    /\ Top.parent_node \notin DOMAIN node_depths
    /\ {Top.parent_node, related_job_name} \in edges

\* C5: a step in which the related-jobs fetch of an activation fails changes
\* neither the graph, node_depths nor visited_jobs, raises nothing, and
\* returns to the caller, which is where an empty related list leaves it.
C5_FetchFailureIsLocal ==
    [][ fails' # fails =>
          /\ graph' = graph
          /\ added' = added
          /\ stack' = Tail(stack)
          /\ phase' = IF Tail(stack) = <<>> THEN "done" ELSE "traverse" ]_vars

\* a run whose only related-jobs fetch failed and which went on to its end
C5_Witness ==
    /\ phase = "done"
    /\ ~interrupted
    /\ fails = {SeedId}
    /\ nodes = {start_job_name}
    /\ edges = {}

\* __init__ has returned or raised
ConstructionOver ==
    phase \notin {"ctor_retry", "ctor_add_node", "ctor_set_depth", "ctor_mark_visited"}

\* C6: when construction is over and every detail fetch it made ended in a
\* network or HTTP error, construction has raised, nothing is registered in
\* the graph, node_depths or visited_jobs, and the walk is not started.
C6_SeedFailureAborts ==
    (ConstructionOver /\ allRequestErrors) =>
        /\ phase = "ctor_raised"
        /\ nodes = {}
        /\ DOMAIN node_depths = {}
        /\ visited_jobs = {}
        /\ stack = <<>>

\* C7 as stated: at the end of a run, visited_jobs is no larger than the set
\* of job ids that appeared in entries of returned related lists.
C7_VisitedAtMostSeen ==
    phase = "done" => Cardinality(visited_jobs) <= Cardinality(seen)

\* C7 amended: at the end of a run, visited_jobs is no larger than one (the
\* seed id, which construction puts there) plus the number of job ids that
\* appeared in entries of returned related lists.
C7_VisitedAtMostSeenPlusSeed ==
    phase = "done" => Cardinality(visited_jobs) <= 1 + Cardinality(seen)

\* a finished run that visited the seed and every job id it saw
C7_Witness ==
    /\ phase = "done"
    /\ ~interrupted
    /\ seen # {}
    /\ Cardinality(visited_jobs) = 1 + Cardinality(seen)

\* the call that expands job id is about to be made or has not yet fetched
Pending(id) ==
    /\ stack # <<>>
    /\ \/ Top.pc \in {"enter", "fetch"} /\ Top.job_id = id
       \/ Top.pc = "recurse" /\ extracted_job_id = id

\* C8: an entry added as a new node at a depth below max_depth is expanded
\* (its related list is fetched) before the walk goes on to the next sibling
\* or ends.
C8_NewNodeExpanded ==
    (~interrupted /\ phase \in {"traverse", "done"}) =>
        \A p \in added : (p[2] < max_depth /\ p[1] \notin fetched) => Pending(p[1])

\* C9: the call get_related_jobs(seed_id, 1) eventually returns (or the run
\* is stopped), whatever the remote source holds and however its calls fail.
C9_Terminates == (phase = "traverse") ~> Terminated

\* a finished walk over jobs that list each other and themselves
C9_Witness ==
    /\ phase = "done"
    /\ ~interrupted
    /\ remote = MutualRemote
    /\ max_depth = 2
    /\ Cardinality(visited_jobs) > 1

\* C10: every edge added while the top-level call processes the seed's own
\* list has start_job_name as an endpoint, and at the end of the walk every
\* node of the graph has an entry in node_depths.
C10_EdgesFromSeedNode ==
    [][ /\ \A e \in edges' \ edges :
              (stack # <<>> /\ Top.depth = 1) => start_job_name \in e
        /\ phase' = "done" => nodes' \subseteq DOMAIN node_depths' ]_vars

====
